---- MODULE Spec2Model ----
(***************************************************************************)
(* A model of v3donationscript.py: a batch job that extracts an identifier *)
(* (PAN) from each PDF, resolves it to an email through a lookup table,    *)
(* stages the PDF under grouped/{PAN}/, groups the staged files by email,  *)
(* sends one rate-limited, retried message per email and moves the files   *)
(* of a sent group to processed/{PAN}/.                                    *)
(*                                                                         *)
(* Time is the integer number of seconds since the module was imported.    *)
(* time.sleep and the SMTP sessions advance it.  A path is the tuple of   *)
(* its components: os.path.join(d, pan, f) is <<d, pan, f>>.               *)
(***************************************************************************)
EXTENDS Integers, Sequences, FiniteSets, TLC

----------------------------------------------------------------------------
(* Bounds of the model *)

\* number of PDF files in pdf_directory
NumFiles == 3

\* longest list of optional triples handed to the grouping stage in SpecGroup
MaxResults == 3

\* number of recipient groups in SpecRate
RateGroups == 21

\* most failed delivery attempts in one run of SpecRate
RateFailures == 2

\* most rows of a lookup table in SpecLookup
MaxRows == 3

\* number of PDF files in SpecDeliver
DeliverFiles == 2

\* seconds an SMTP session takes on a slow server
SlowSession == 3

----------------------------------------------------------------------------
(* Program constants *)

CALLS_PER_MINUTE == 20
PERIOD == 60
MAX_RETRIES == 5
BASE_DELAY == 1

----------------------------------------------------------------------------
(* Values *)

\* Python's None where a PAN or an email is expected
None == "None"

\* in place of the PAN of a file: PdfReader or extract_text raises on it
Unreadable == "Unreadable"

PANs == {"ABCDE1234F", "FGHIJ5678K", "KLMNO9012P"}

Row(pan, email) == [PAN |-> pan, eMail |-> email]

\* one email per PAN
PlainTable ==
    << Row("ABCDE1234F", "a@x.com"), Row("FGHIJ5678K", "b@x.com"),
       Row("KLMNO9012P", "c@x.com") >>

\* The lookup tables the runs are checked with: one email per PAN; two PANs
\* of one email and a duplicate row; a PAN that is in no row.
Tables ==
    { PlainTable,
      << Row("ABCDE1234F", "a@x.com"), Row("FGHIJ5678K", "a@x.com"),
         Row("ABCDE1234F", "b@x.com"), Row("KLMNO9012P", "b@x.com") >>,
      << Row("FGHIJ5678K", "b@x.com"), Row("ABCDE1234F", "a@x.com") >> }

\* a table read from a file without the PAN column, and one without the
\* email column
BrokenTables == { << [eMail |-> "a@x.com"] >>, << [PAN |-> "ABCDE1234F"] >> }

\* An absent result (None) and a present one (the tuple (pan, email, path))
NoResult == [some |-> FALSE, pan |-> None, email |-> None, path |-> <<>>]

Triple(pan, email, path) ==
    [some |-> TRUE, pan |-> pan, email |-> email, path |-> path]

Range(s) == {s[i] : i \in DOMAIN s}

Min(S) == CHOOSE x \in S : \A y \in S : x <= y

RECURSIVE Pow2(_)
Pow2(n) == IF n = 0 THEN 1 ELSE 2 * Pow2(n - 1)

----------------------------------------------------------------------------
VARIABLES
    pdf_pan,        \* file -> the PAN its text holds after the label, None,
                    \* or Unreadable
    df,             \* the lookup table: a sequence of rows
    pdf_files,      \* the listing of pdf_directory
    blocked,        \* paths at which something other than a directory exists
    quit_refused,   \* how many SMTP sessions, from the first that gets to
                    \* its end, have their QUIT answered with an error
    send_seconds,   \* the seconds one pass of the try block takes
    worker,         \* position of each process_pdf call: "idle", "copy", "done"
    results,        \* one slot per input file
    staging_dirs,   \* sub-directories of grouped_directory
    staging,        \* files under grouped_directory
    processed_dirs, \* sub-directories of processed_directory
    processed,      \* files under processed_directory
    email_groups,   \* dict email -> list of paths, in insertion order
    pan_to_files,   \* dict PAN -> list of paths, in insertion order
    pc,             \* position of main
    gi,             \* index of the group being dispatched
    attempt,        \* loop variable of send_grouped_email_with_retry
    fi,             \* index of the attachment being archived
    clock,          \* seconds since import
    last_reset,     \* rate limiter: start of the current period
    num_calls,      \* rate limiter: calls counted in the current period
    calls,          \* emails send_grouped_email_with_retry's body ran for
    send_log,       \* delivery attempts
    sleep_log,      \* backoff sleeps
    returned,       \* return values of send_grouped_email_with_retry
    move_log,       \* shutil.move calls of the archival loop
    errors,         \* logger.error records
    summary,        \* the count logged at the end, or -1
    pdf_text,       \* the text PyPDF2 extracts from one PDF (SpecExtract)
    extracted       \* what extract_pan_from_pdf returned for it

inputs == <<pdf_pan, df, pdf_files, blocked, quit_refused, send_seconds>>
classification == <<worker, results>>
filesystem == <<staging_dirs, staging, processed_dirs, processed>>
grouping == <<email_groups, pan_to_files>>
position == <<pc, gi, attempt, fi>>
limiter == <<clock, last_reset, num_calls>>
history == <<calls, send_log, sleep_log, returned, move_log>>
logging == <<errors, summary>>
extraction == <<pdf_text, extracted>>

vars == <<inputs, classification, filesystem, grouping, position, limiter,
          history, logging, extraction>>

----------------------------------------------------------------------------
(* Paths *)

pdf_dir == "pdf"
grouped_dir == "grouped"
processed_dir == "processed"

join2(d, f) == <<d, f>>

join3(d, pan, f) == <<d, pan, f>>

basename(path) == path[Len(path)]

----------------------------------------------------------------------------
(* Identifier extractor and recipient resolver *)

\* reading the PDF raises inside extract_pan_from_pdf, whose "except
\* Exception" logs the error
extract_raises(f) == pdf_pan[f] = Unreadable

\* The text of each file is an input of the run: pdf_pan[f] is the code that
\* follows the label "Unique Identification Number" in the text of f, which
\* re.search captures, or None when there is no match; when the file cannot
\* be read the function returns None too.
extract_pan_from_pdf(f) == IF extract_raises(f) THEN None ELSE pdf_pan[f]

\* the table has the column
HasColumn(table, column) == \A i \in DOMAIN table : column \in DOMAIN table[i]

\* the lookup raises KeyError: df['PAN'] without that column, or
\* iloc[0]['eMail ID'] of a matching row without that column
lookup_raises(pan, table) ==
    \/ ~HasColumn(table, "PAN")
    \/ /\ \E i \in DOMAIN table : table[i].PAN = pan
       /\ ~HasColumn(table, "eMail")

get_email_for_pan_last(pan, table) ==
    IF lookup_raises(pan, table) THEN None
    ELSE LET hits == {i \in DOMAIN table : table[i].PAN = pan}
         IN  IF hits = {} THEN None
             ELSE table[CHOOSE i \in hits : \A j \in hits : j <= i].eMail

\* df[df['PAN'] == pan], then iloc[0]['eMail ID'] unless empty; a KeyError
\* is turned into None by "except Exception"
get_email_for_pan(pan, table) ==
    IF lookup_raises(pan, table) THEN None
    ELSE LET hits == {i \in DOMAIN table : table[i].PAN = pan}
         IN  IF hits = {} THEN None ELSE table[Min(hits)].eMail

----------------------------------------------------------------------------
(* The extractor on a text.  A text is the sequence of its characters; the *)
(* 28 characters of the label are written as the one element Label.  An    *)
(* unreadable PDF makes PdfReader or extract_text raise.                   *)

Label == "Unique Identification Number"

Upper == {"A", "B", "C", "D", "E", "F", "G", "H", "I", "J", "K", "L", "M",
          "N", "O", "P", "Q", "R", "S", "T", "U", "V", "W", "X", "Y", "Z"}

Digit == {"0", "1", "2", "3", "4", "5", "6", "7", "8", "9"}

\* what \s matches in a str pattern: the ASCII whitespace [ \t\n\r\f\v], the
\* separators \x1c-\x1f and the Unicode whitespace.  A character that has no
\* escape here is written as its code point.
Whitespace ==
    {" ", "\t", "\n", "\r", "\f", "U+000B",
     "U+001C", "U+001D", "U+001E", "U+001F", "U+0085", "U+00A0", "U+1680",
     "U+2000", "U+2001", "U+2002", "U+2003", "U+2004", "U+2005", "U+2006",
     "U+2007", "U+2008", "U+2009", "U+200A", "U+2028", "U+2029", "U+202F",
     "U+205F", "U+3000"}

\* an absent PAN (None) and a found one (the string match.group(1))
NotFound == [found |-> FALSE, pan |-> <<>>]

Found(code) == [found |-> TRUE, pan |-> code]

\* [A-Z]{5}[0-9]{4}[A-Z] matches the ten characters from position p
CodeAt(chars, p) ==
    /\ p + 9 <= Len(chars)
    /\ \A k \in 0..4 : chars[p + k] \in Upper
    /\ \A k \in 5..8 : chars[p + k] \in Digit
    /\ chars[p + 9] \in Upper

\* the pattern matches from position s with its group starting at p: the
\* label, one or more whitespace characters, the code
MatchAt(chars, s, p) ==
    /\ s \in DOMAIN chars
    /\ chars[s] = Label
    /\ p >= s + 2
    /\ \A q \in (s + 1)..(p - 1) : chars[q] \in Whitespace
    /\ CodeAt(chars, p)

\* re.search: the leftmost match's group 1, or no match
re_search(chars) ==
    LET starts == {s \in DOMAIN chars : \E p \in DOMAIN chars : MatchAt(chars, s, p)}
    IN  IF starts = {} THEN NotFound
        ELSE LET s == Min(starts)
                 p == CHOOSE q \in DOMAIN chars : MatchAt(chars, s, q)
             IN  Found(SubSeq(chars, p, p + 9))

\* extract_pan_from_pdf on a PDF with this text: "except Exception" turns a
\* failure to read into None
extract_pan_from_text(text) ==
    IF text.readable THEN re_search(text.chars) ELSE NotFound

\* one call of extract_pan_from_pdf, on the file pdf_dir/1: a failure to
\* read is logged as an error
ExtractPan ==
    /\ pc = "extract"
    /\ extracted' = extract_pan_from_text(pdf_text)
    /\ errors' = IF pdf_text.readable THEN errors
                 ELSE errors \cup {<<"Error extracting PAN", 1>>}
    /\ pc' = "extracted"
    /\ UNCHANGED <<pdf_text, inputs, classification, filesystem, grouping, gi,
                   attempt, fi, limiter, history, summary>>

\* no text is being extracted
ExtractorIdle ==
    /\ pdf_text = [readable |-> TRUE, chars |-> <<>>]
    /\ extracted = NotFound

----------------------------------------------------------------------------
(* Document classifier: process_pdf, one call per file on the thread pool *)

ShouldStage_pan_only(pan, email) == pan # None

\* "if pan:" and "if email:" of process_pdf
ShouldStage(pan, email) == pan # None /\ email # None

makedirs_raises_without_exist_ok(dirs, d) == d \in dirs \/ d \in blocked

\* os.makedirs(d, exist_ok=True) raises FileExistsError when something that
\* is not a directory exists at d; it does not when d is a directory
\* already, also one that another worker has made in the meantime
makedirs_raises(dirs, d) == d \in blocked

\* process_pdf up to os.makedirs(pan_dir, exist_ok=True)
ProcessPdfStart(i) ==
    /\ pc = "classify"
    /\ worker[i] = "idle"
    /\ LET f == pdf_files[i]
           pan == extract_pan_from_pdf(f)
           email == IF pan # None THEN get_email_for_pan(pan, df) ELSE None
           \* logger.error of extract_pan_from_pdf and of get_email_for_pan
           logged ==
               (IF extract_raises(f) THEN {<<"Error extracting PAN", f>>} ELSE {})
                   \cup (IF pan # None /\ lookup_raises(pan, df)
                         THEN {<<"Error getting email for PAN", f>>} ELSE {})
       IN  IF ShouldStage(pan, email)
           THEN IF makedirs_raises(staging_dirs, join2(grouped_dir, pan))
                THEN /\ worker' = [worker EXCEPT ![i] = "done"]
                     /\ results' = [results EXCEPT ![i] = NoResult]
                     /\ errors' = errors \cup logged \cup
                           {<<"Error processing: FileExistsError", f>>}
                     /\ UNCHANGED staging_dirs
                ELSE /\ staging_dirs' = staging_dirs \cup {join2(grouped_dir, pan)}
                     /\ worker' = [worker EXCEPT ![i] = "copy"]
                     /\ errors' = errors \cup logged
                     /\ UNCHANGED results
           ELSE /\ worker' = [worker EXCEPT ![i] = "done"]
                /\ results' = [results EXCEPT ![i] = NoResult]
                /\ errors' = errors \cup logged
                /\ UNCHANGED staging_dirs
    /\ UNCHANGED <<extraction, inputs, staging, processed_dirs, processed, grouping,
                   position, limiter, history, summary>>

\* shutil.copy(pdf_path, output_path); return (pan, email, output_path)
ProcessPdfCopy(i) ==
    /\ pc = "classify"
    /\ worker[i] = "copy"
    /\ LET f == pdf_files[i]
           pan == extract_pan_from_pdf(f)
           email == IF pan # None THEN get_email_for_pan(pan, df) ELSE None
           output_path == join3(grouped_dir, pan, f)
       IN  /\ staging' = staging \cup {output_path}
           /\ results' = [results EXCEPT ![i] = Triple(pan, email, output_path)]
    /\ worker' = [worker EXCEPT ![i] = "done"]
    /\ UNCHANGED <<extraction, inputs, staging_dirs, processed_dirs, processed, grouping,
                   position, limiter, history, logging>>

\* the exception leaves process_pdf: executor.map raises it in main
ProcessPdfError_aborts(i) ==
    /\ pc = "classify"
    /\ worker[i] = "copy"
    /\ pc' = "done"
    /\ errors' = errors \cup
          {<<"An error occurred during script execution", "classify">>}
    /\ UNCHANGED <<extraction, inputs, classification, filesystem, grouping, gi,
                   attempt, fi, limiter, history, summary>>

\* shutil.copy raises: "except Exception" logs the error and returns None.
\* The copy fails before the destination is created, or after, and then a
\* truncated file stays at output_path.
ProcessPdfError(i) ==
    /\ pc = "classify"
    /\ worker[i] = "copy"
    /\ worker' = [worker EXCEPT ![i] = "done"]
    /\ results' = [results EXCEPT ![i] = NoResult]
    /\ errors' = errors \cup {<<"Error processing", pdf_files[i]>>}
    /\ LET f == pdf_files[i]
           output_path == join3(grouped_dir, extract_pan_from_pdf(f), f)
       IN  \E created \in BOOLEAN :
               staging' = IF created THEN staging \cup {output_path} ELSE staging
    /\ UNCHANGED <<extraction, inputs, staging_dirs, processed_dirs, processed, grouping,
                   position, limiter, history, summary>>

----------------------------------------------------------------------------
(* Grouping stage *)

dict_append_overwrite(d, key, path) ==
    IF \E i \in DOMAIN d : d[i].key = key
    THEN LET i == CHOOSE j \in DOMAIN d : d[j].key = key
         IN  [d EXCEPT ![i].files = <<path>>]
    ELSE Append(d, [key |-> key, files |-> <<path>>])

dict_append_new_key_empty(d, key, path) ==
    IF \E i \in DOMAIN d : d[i].key = key
    THEN LET i == CHOOSE j \in DOMAIN d : d[j].key = key
         IN  [d EXCEPT ![i].files = Append(@, path)]
    ELSE Append(d, [key |-> key, files |-> <<>>])

\* "if key not in d: d[key] = []" then "d[key].append(path)"
dict_append(d, key, path) ==
    IF \E i \in DOMAIN d : d[i].key = key
    THEN LET i == CHOOSE j \in DOMAIN d : d[j].key = key
         IN  [d EXCEPT ![i].files = Append(@, path)]
    ELSE Append(d, [key |-> key, files |-> <<path>>])

\* the loop "for result in results", from the dictionaries eg and pf
RECURSIVE GroupLoop(_, _, _)
GroupLoop(rs, eg, pf) ==
    IF rs = <<>> THEN <<eg, pf>>
    ELSE LET result == Head(rs)
         IN  IF result.some
             THEN GroupLoop(Tail(rs),
                            dict_append(eg, result.email, result.path),
                            dict_append(pf, result.pan, result.path))
             ELSE GroupLoop(Tail(rs), eg, pf)

\* results = list(executor.map(...)) has returned; group the results
GroupResults ==
    /\ pc = "classify"
    /\ \A i \in DOMAIN worker : worker[i] = "done"
    /\ LET g == GroupLoop(results, <<>>, <<>>)
       IN  /\ email_groups' = g[1]
           /\ pan_to_files' = g[2]
           /\ pc' = IF Len(g[1]) = 0 THEN "finish" ELSE "call"
    /\ gi' = 1
    /\ UNCHANGED <<extraction, inputs, classification, filesystem, attempt, fi, limiter,
                   history, logging>>

\* the results are grouped, then a key of the Email section is missing from
\* the configuration: KeyError reaches the except clause of main
EmailConfigError ==
    /\ pc = "classify"
    /\ \A i \in DOMAIN worker : worker[i] = "done"
    /\ LET g == GroupLoop(results, <<>>, <<>>)
       IN  /\ email_groups' = g[1]
           /\ pan_to_files' = g[2]
    /\ errors' = errors \cup {<<"An error occurred during script execution", "email_config">>}
    /\ pc' = "done"
    /\ UNCHANGED <<extraction, inputs, classification, filesystem, gi, attempt, fi,
                   limiter, history, summary>>

----------------------------------------------------------------------------
(* Dispatch engine: send_grouped_email_with_retry under                    *)
(* @sleep_and_retry @limits(calls=CALLS_PER_MINUTE, period=PERIOD)         *)

group == email_groups[gi]

\* the attachments can be read: open(file_path, "rb") succeeds for each
Readable(attachments) == \A k \in DOMAIN attachments : attachments[k] \in staging

\* the names the message's attachments carry, in order
AttachmentNames(attachments) == [k \in DOMAIN attachments |-> basename(attachments[k])]

\* the limiter's time left in the current period
period_remaining == PERIOD - (clock - last_reset)

\* the for loop of main moves on to the next group, or ends
NextGroup ==
    IF gi < Len(email_groups)
    THEN /\ gi' = gi + 1
         /\ pc' = "call"
    ELSE /\ gi' = gi
         /\ pc' = "finish"

\* main calls the decorated function.  The limiter starts a new period when
\* the current one is over and counts the call; over the limit it raises
\* RateLimitException, which sleep_and_retry answers by sleeping for the rest
\* of the period and calling again; otherwise the function body starts.
RateLimitedCall ==
    /\ pc = "call"
    /\ LET expired == period_remaining <= 0
           counted == (IF expired THEN 0 ELSE num_calls) + 1
           reset == IF expired THEN clock ELSE last_reset
       IN  /\ num_calls' = counted
           /\ last_reset' = reset
           /\ IF counted > CALLS_PER_MINUTE
              THEN /\ clock' = clock + (PERIOD - (clock - reset))
                   /\ UNCHANGED <<pc, attempt, calls>>
              ELSE /\ pc' = "attempt"
                   /\ attempt' = 0
                   /\ calls' = Append(calls, group.key)
                   /\ UNCHANGED clock
    /\ UNCHANGED <<extraction, inputs, classification, filesystem, grouping, gi, fi,
                   send_log, sleep_log, returned, move_log, logging>>

\* one pass of the try block, from start to time: ok when it reached
\* "return True", delivered when server.send_message returned
Attempt(ok, delivered) ==
    [email |-> group.key, attempt |-> attempt, start |-> clock,
     time |-> clock + send_seconds, ok |-> ok,
     delivered |-> delivered, files |-> AttachmentNames(group.files)]

ShouldArchive_always(sent) == TRUE

\* "if send_grouped_email_with_retry(...):" of main
ShouldArchive(sent) == sent

\* what main does with the value the call returned
Return(value) ==
    /\ returned' = Append(returned, [email |-> group.key, value |-> value])
    /\ IF ShouldArchive(value) /\ Len(group.files) > 0
       THEN /\ pc' = "archive"
            /\ fi' = 1
            /\ gi' = gi
       ELSE /\ NextGroup
            /\ fi' = fi

\* leaving the "with smtplib.SMTP(...)" block raises: SMTP.__exit__ sends
\* QUIT and raises SMTPResponseException when the answer is not 221
quit_raises ==
    Cardinality({i \in DOMAIN send_log : send_log[i].delivered}) < quit_refused

\* an attempt delivers the message: return True
SendOk ==
    /\ pc = "attempt"
    /\ Readable(group.files)
    /\ ~quit_raises
    /\ send_log' = Append(send_log, Attempt(TRUE, TRUE))
    /\ clock' = clock + send_seconds
    /\ Return(TRUE)
    /\ UNCHANGED <<extraction, inputs, classification, filesystem, grouping, attempt,
                   last_reset, num_calls, calls, sleep_log, move_log, logging>>

BackoffDelay_linear(k) == BASE_DELAY * (k + 1)

\* delay = BASE_DELAY * (2 ** attempt)
BackoffDelay(k) == BASE_DELAY * Pow2(k)

LastAttempt_one_more(k) == k + 1 > MAX_RETRIES

\* "for attempt in range(MAX_RETRIES)" has no further value after k
LastAttempt(k) == k + 1 >= MAX_RETRIES

\* an attempt raises: the handler computes the delay, logs a warning and
\* sleeps; after the last attempt the loop ends, the error is logged and
\* the function returns False
AttemptRaises(delivered) ==
    /\ pc = "attempt"
    /\ LET delay == BackoffDelay(attempt)
       IN  /\ send_log' = Append(send_log, Attempt(FALSE, delivered))
           /\ sleep_log' = Append(sleep_log,
                 [email |-> group.key, attempt |-> attempt, delay |-> delay,
                  from |-> clock + send_seconds])
           /\ clock' = clock + send_seconds + delay
    /\ IF LastAttempt(attempt)
       THEN /\ Return(FALSE)
            /\ errors' = errors \cup {<<"Failed to send email", group.key>>}
            /\ UNCHANGED attempt
       ELSE /\ attempt' = attempt + 1
            /\ UNCHANGED <<pc, gi, fi, returned, errors>>
    /\ UNCHANGED <<extraction, inputs, classification, filesystem, grouping, last_reset,
                   num_calls, calls, move_log, summary>>

\* the exception is raised before the message is handed over: reading an
\* attachment, connecting, starttls, login or send_message fails
SendFail == AttemptRaises(FALSE)

\* server.send_message has returned and leaving the "with" block raises:
\* the same handler runs
SendErrorAfterDelivery ==
    /\ pc = "attempt"
    /\ Readable(group.files)
    /\ quit_raises
    /\ AttemptRaises(TRUE)

----------------------------------------------------------------------------
(* Archival stage *)

\* next(pan for pan, files in pan_to_files.items() if pdf_path in files)
owner(pf, path) ==
    pf[Min({i \in DOMAIN pf : path \in Range(pf[i].files)})].key

HasOwner(pf, path) == \E i \in DOMAIN pf : path \in Range(pf[i].files)

\* where the archival loop moves pdf_path
Destination(pdf_path) ==
    join3(processed_dir, owner(pan_to_files, pdf_path), basename(pdf_path))

\* processed_pan_dir of the iteration for pdf_path
processed_pan_dir(pdf_path) == join2(processed_dir, owner(pan_to_files, pdf_path))

\* one iteration of "for pdf_path in attachments": the file is moved
MoveOk ==
    /\ pc = "archive"
    /\ LET pdf_path == group.files[fi]
       IN  /\ HasOwner(pan_to_files, pdf_path)
           /\ ~makedirs_raises(processed_dirs, processed_pan_dir(pdf_path))
           /\ pdf_path \in staging
           /\ processed_dirs' = processed_dirs \cup
                 {join2(processed_dir, owner(pan_to_files, pdf_path))}
           /\ staging' = staging \ {pdf_path}
           /\ processed' = processed \cup {Destination(pdf_path)}
           /\ move_log' = Append(move_log,
                 [src |-> pdf_path, dst |-> Destination(pdf_path), ok |-> TRUE])
    /\ IF fi < Len(group.files)
       THEN /\ fi' = fi + 1
            /\ UNCHANGED <<pc, gi>>
       ELSE /\ NextGroup
            /\ fi' = fi
    /\ UNCHANGED <<extraction, inputs, classification, staging_dirs, grouping, attempt,
                   limiter, calls, send_log, sleep_log, returned, logging>>

\* shutil.move raises: nothing in the loop catches it, so it reaches the
\* "except Exception" of main, which logs the error; main returns.  The
\* source stays in staging; when the move had to copy (os.rename failed) and
\* the copy broke off or the source could not be removed, the destination
\* exists as well.
MoveError ==
    /\ pc = "archive"
    /\ LET pdf_path == group.files[fi]
       IN  /\ HasOwner(pan_to_files, pdf_path)
           /\ ~makedirs_raises(processed_dirs, processed_pan_dir(pdf_path))
           /\ processed_dirs' = processed_dirs \cup
                 {join2(processed_dir, owner(pan_to_files, pdf_path))}
           /\ move_log' = Append(move_log,
                 [src |-> pdf_path, dst |-> Destination(pdf_path), ok |-> FALSE])
           /\ \E created \in BOOLEAN :
                 processed' = IF created THEN processed \cup {Destination(pdf_path)}
                              ELSE processed
    /\ errors' = errors \cup {<<"An error occurred during script execution", "move">>}
    /\ pc' = "done"
    /\ UNCHANGED <<extraction, inputs, classification, staging_dirs, staging,
                   grouping, gi, attempt, fi, limiter, calls, send_log,
                   sleep_log, returned, summary>>

\* os.makedirs(processed_pan_dir, exist_ok=True) of the iteration raises:
\* the file is not moved, and the exception reaches the "except Exception"
\* of main like one of shutil.move
ArchiveMakedirsError ==
    /\ pc = "archive"
    /\ LET pdf_path == group.files[fi]
       IN  /\ HasOwner(pan_to_files, pdf_path)
           /\ makedirs_raises(processed_dirs, processed_pan_dir(pdf_path))
    /\ errors' = errors \cup {<<"An error occurred during script execution", "move">>}
    /\ pc' = "done"
    /\ UNCHANGED <<extraction, inputs, classification, filesystem, grouping, gi,
                   attempt, fi, limiter, history, summary>>

----------------------------------------------------------------------------
(* main *)

\* configuration and table are loaded, the directories made, the PDFs listed
Setup ==
    /\ pc = "start"
    /\ pc' = "classify"
    /\ UNCHANGED <<extraction, inputs, classification, filesystem, grouping, gi, attempt,
                   fi, limiter, history, logging>>

SetupError_continues ==
    /\ pc = "start"
    /\ pc' = "classify"
    /\ errors' = errors \cup {<<"An error occurred during script execution", "setup">>}
    /\ UNCHANGED <<extraction, inputs, classification, filesystem, grouping, gi,
                   attempt, fi, limiter, history, summary>>

\* an exception before the thread pool starts (configuration missing, table
\* unreadable, listing fails): logged by "except Exception"; main returns
SetupError ==
    /\ pc = "start"
    /\ pc' = "done"
    /\ errors' = errors \cup {<<"An error occurred during script execution", "setup">>}
    /\ UNCHANGED <<extraction, inputs, classification, filesystem, grouping, gi, attempt,
                   fi, limiter, history, summary>>

\* "Finished processing PDFs. Sent {len(email_groups)} emails ..."
Finish ==
    /\ pc = "finish"
    /\ summary' = Len(email_groups)
    /\ pc' = "done"
    /\ UNCHANGED <<extraction, inputs, classification, filesystem, grouping, gi, attempt,
                   fi, limiter, history, errors>>

\* the state when main is entered, but for the inputs
Fresh ==
    /\ staging_dirs = {}
    /\ staging = {}
    /\ processed_dirs = {}
    /\ processed = {}
    /\ email_groups = <<>>
    /\ pan_to_files = <<>>
    /\ gi = 1
    /\ attempt = 0
    /\ fi = 1
    /\ clock = 0
    /\ last_reset = 0
    /\ num_calls = 0
    /\ calls = <<>>
    /\ send_log = <<>>
    /\ sleep_log = <<>>
    /\ returned = <<>>
    /\ move_log = <<>>
    /\ errors = {}
    /\ summary = -1
    /\ ExtractorIdle

\* what may be in the way of a sub-directory: a regular file named like the
\* staging or the processed sub-directory of a PAN
Obstacles ==
    {{join2(grouped_dir, "ABCDE1234F")}, {join2(processed_dir, "ABCDE1234F")}}

\* The inputs of a run: any files with any of the complete tables on a sound
\* file system and server; or files some of which cannot be read, on a
\* server that answers at once or a slow one; or a
\* table that lacks a column; or something in the way of a sub-directory;
\* or a server that refuses the QUIT of the first session or of the first
\* MAX_RETRIES.
Init ==
    /\ pdf_files = [i \in 1..NumFiles |-> i]
    /\ \/ /\ pdf_pan \in [1..NumFiles -> PANs \cup {None}]
          /\ df \in Tables
          /\ blocked = {}
          /\ quit_refused = 0
          /\ send_seconds = 0
       \/ /\ pdf_pan \in [1..NumFiles -> {"ABCDE1234F", Unreadable}]
          /\ df = PlainTable
          /\ blocked = {}
          /\ quit_refused = 0
          /\ send_seconds \in {0, SlowSession}
       \/ /\ pdf_pan \in [1..NumFiles -> {"ABCDE1234F", None}]
          /\ df \in BrokenTables
          /\ blocked = {}
          /\ quit_refused = 0
          /\ send_seconds = 0
       \/ /\ pdf_pan \in [1..NumFiles -> {"ABCDE1234F", "FGHIJ5678K"}]
          /\ df = PlainTable
          /\ blocked \in Obstacles
          /\ quit_refused = 0
          /\ send_seconds = 0
       \/ /\ pdf_pan \in [1..NumFiles -> {"ABCDE1234F", None}]
          /\ df = PlainTable
          /\ blocked = {}
          /\ quit_refused \in {1, MAX_RETRIES}
          /\ send_seconds = 0
    /\ worker = [i \in 1..NumFiles |-> "idle"]
    /\ results = [i \in 1..NumFiles |-> NoResult]
    /\ pc = "start"
    /\ Fresh

Next ==
    \/ Setup
    \/ SetupError
    \/ \E i \in DOMAIN pdf_files : ProcessPdfStart(i)
    \/ \E i \in DOMAIN pdf_files : ProcessPdfCopy(i)
    \/ \E i \in DOMAIN pdf_files : ProcessPdfError(i)
    \/ GroupResults
    \/ EmailConfigError
    \/ RateLimitedCall
    \/ SendOk
    \/ SendFail
    \/ SendErrorAfterDelivery
    \/ MoveOk
    \/ MoveError
    \/ ArchiveMakedirsError
    \/ Finish

Spec == Init /\ [][Next]_vars

----------------------------------------------------------------------------
(* The grouping stage alone, on any list of optional triples *)

SomeTriples ==
    {Triple(pan, email, path) :
        pan \in {"ABCDE1234F", "FGHIJ5678K"},
        email \in {"a@x.com", "b@x.com"},
        path \in {join3(grouped_dir, "ABCDE1234F", 1), join3(grouped_dir, "FGHIJ5678K", 2)}}

ResultLists ==
    UNION {[1..n -> SomeTriples \cup {NoResult}] : n \in 0..MaxResults}

InitGroup ==
    /\ results \in ResultLists
    /\ blocked = {}
    /\ quit_refused = 0
    /\ send_seconds = 0
    /\ pdf_files = [i \in DOMAIN results |-> i]
    /\ pdf_pan = [i \in DOMAIN results |-> None]
    /\ df = <<>>
    /\ worker = [i \in DOMAIN results |-> "done"]
    /\ pc = "classify"
    /\ Fresh

NextGrouping == GroupResults

SpecGroup == InitGroup /\ [][NextGrouping]_vars

----------------------------------------------------------------------------
(* The dispatch of many groups: file i holds PAN i, which the table maps   *)
(* to email i, and every file has been staged.  The server answers at once *)
(* or is slow.                                                             *)

InitRate ==
    /\ pdf_files = [i \in 1..RateGroups |-> i]
    /\ pdf_pan = [i \in 1..RateGroups |-> i]
    /\ df = [i \in 1..RateGroups |-> Row(i, i)]
    /\ blocked = {}
    /\ quit_refused = 0
    /\ send_seconds \in {0, SlowSession}
    /\ worker = [i \in 1..RateGroups |-> "done"]
    /\ results = [i \in 1..RateGroups |-> Triple(i, i, join3(grouped_dir, i, i))]
    /\ staging_dirs = {join2(grouped_dir, i) : i \in 1..RateGroups}
    /\ staging = {join3(grouped_dir, i, i) : i \in 1..RateGroups}
    /\ processed_dirs = {}
    /\ processed = {}
    /\ email_groups = <<>>
    /\ pan_to_files = <<>>
    /\ pc = "classify"
    /\ gi = 1
    /\ attempt = 0
    /\ fi = 1
    /\ clock = 0
    /\ last_reset = 0
    /\ num_calls = 0
    /\ calls = <<>>
    /\ send_log = <<>>
    /\ sleep_log = <<>>
    /\ returned = <<>>
    /\ move_log = <<>>
    /\ errors = {}
    /\ summary = -1
    /\ ExtractorIdle

FailedAttempts == Cardinality({i \in DOMAIN send_log : ~send_log[i].ok})

NextRate ==
    \/ GroupResults
    \/ RateLimitedCall
    \/ SendOk
    \/ (FailedAttempts < RateFailures /\ SendFail)
    \/ MoveOk
    \/ Finish

SpecRate == InitRate /\ [][NextRate]_vars

----------------------------------------------------------------------------
(* What the claims speak of *)

Groups == Range(email_groups)

ReturnedFor(email, value) ==
    \E i \in DOMAIN returned : returned[i].email = email /\ returned[i].value = value

\* the path in the processed location, as the layout of the file system
\* defines it: processed/{identifier of the staging directory}/{filename}
Archived(path) == <<processed_dir, path[2], path[3]>>

Moved(path) == path \notin staging /\ Archived(path) \in processed

MoveAttempted(path) == \E i \in DOMAIN move_log : move_log[i].src = path

\* no iteration of the archival loop raised
NoMoveFailed ==
    /\ \A i \in DOMAIN move_log : move_log[i].ok
    /\ <<"An error occurred during script execution", "move">> \notin errors

AttemptsOf(email) == {i \in DOMAIN send_log : send_log[i].email = email}

CallsOf(email) == {i \in DOMAIN calls : calls[i] = email}

----------------------------------------------------------------------------
\* C1: at the end of every run, whatever the outcomes of the
\* sends and of the file moves, all files of a group have been moved iff the
\* send returned True for the group, and none if it returned False.
C1_ArchivedIffSent ==
    pc = "done" =>
        \A g \in Groups :
            /\ (\A p \in Range(g.files) : Moved(p)) <=> ReturnedFor(g.key, TRUE)
            /\ ReturnedFor(g.key, FALSE) => \A p \in Range(g.files) : ~Moved(p)

----------------------------------------------------------------------------
\* the attempts made in the PERIOD seconds that start at time t
AttemptsWithin(t) ==
    {i \in DOMAIN send_log : send_log[i].time >= t /\ send_log[i].time < t + PERIOD}

\* C2: at most CALLS_PER_MINUTE delivery attempts (first tries and retries,
\* over all recipients) lie in any window of PERIOD seconds, and no group is
\* passed over by the limiter: each group main has reached was called.
C2_RateLimit ==
    /\ \A i \in DOMAIN send_log :
          Cardinality(AttemptsWithin(send_log[i].time)) <= CALLS_PER_MINUTE
    /\ \A k \in DOMAIN email_groups :
          (k < gi \/ pc \in {"finish", "done"}) => CallsOf(email_groups[k].key) # {}

----------------------------------------------------------------------------
\* C3: when a move fails after a successful send, the failure is logged,
\* every other attachment of the group is still moved (its move is tried),
\* and every other group is still dispatched and, if sent, archived.
C3_MoveFailureIndependent ==
    (pc = "done" /\ ~NoMoveFailed) =>
        /\ <<"An error occurred during script execution", "move">> \in errors
        /\ \A g \in Groups :
              /\ CallsOf(g.key) # {}
              /\ ReturnedFor(g.key, TRUE) =>
                    \A p \in Range(g.files) : MoveAttempted(p)

----------------------------------------------------------------------------
\* C4: when the send of one group returns False, its files all stay in
\* staging, and every other group is still dispatched and, if its send
\* succeeds, archived (the move of each of its files is tried).
C4_ExhaustionTerminalForGroupOnly ==
    pc = "done" =>
        \A g \in Groups :
            ReturnedFor(g.key, FALSE) =>
                /\ \A p \in Range(g.files) : p \in staging
                /\ \A h \in Groups \ {g} :
                      /\ CallsOf(h.key) # {}
                      /\ ReturnedFor(h.key, TRUE) =>
                            \A p \in Range(h.files) : MoveAttempted(p)

----------------------------------------------------------------------------
\* C5: the delay waited after failed attempt k and before attempt k+1 is
\* BASE_DELAY * 2^k, for k = 0 .. MAX_RETRIES-2.
C5_BackoffDelays ==
    /\ \A i \in DOMAIN sleep_log :
          sleep_log[i].attempt \in 0..(MAX_RETRIES - 2) =>
              sleep_log[i].delay = BASE_DELAY * 2^(sleep_log[i].attempt)
    /\ \A j \in DOMAIN send_log :
          send_log[j].attempt >= 1 =>
              \E i \in 1..(j - 1) :
                  /\ send_log[i].email = send_log[j].email
                  /\ send_log[i].attempt = send_log[j].attempt - 1
                  /\ ~send_log[i].ok
                  /\ send_log[j].start - send_log[i].time
                        = BASE_DELAY * 2^(send_log[i].attempt)
                  /\ \E s \in DOMAIN sleep_log :
                        /\ sleep_log[s].email = send_log[i].email
                        /\ sleep_log[s].attempt = send_log[i].attempt
                        /\ sleep_log[s].from = send_log[i].time

\* a call has made all its attempts, so the delays 1, 2, 4 and 8 were waited
C5_Witness ==
    \E j \in DOMAIN send_log :
        /\ send_log[j].attempt = MAX_RETRIES - 1
        /\ \A k \in 0..(MAX_RETRIES - 2) :
              \E s \in DOMAIN sleep_log :
                  /\ sleep_log[s].email = send_log[j].email
                  /\ sleep_log[s].attempt = k

----------------------------------------------------------------------------
\* C6: a call makes at most MAX_RETRIES attempts; it returns True as soon as
\* an attempt succeeds and makes no attempt after that; it returns False iff
\* exactly MAX_RETRIES attempts were made and each failed.
C6_AttemptsAndResult ==
    \A e \in Range(calls) :
        /\ Cardinality(CallsOf(e)) = 1
        /\ Cardinality(AttemptsOf(e)) <= MAX_RETRIES
        /\ \A i \in AttemptsOf(e) :
              send_log[i].ok =>
                  /\ ReturnedFor(e, TRUE)
                  /\ \A j \in AttemptsOf(e) : j <= i
        /\ ReturnedFor(e, TRUE) => \E i \in AttemptsOf(e) : send_log[i].ok
        /\ ReturnedFor(e, FALSE) <=>
              /\ Cardinality(AttemptsOf(e)) = MAX_RETRIES
              /\ \A i \in AttemptsOf(e) : ~send_log[i].ok

\* one call returned True at its third attempt and another returned False
C6_Witness ==
    /\ \E i \in DOMAIN send_log :
          /\ send_log[i].ok
          /\ send_log[i].attempt = 2
          /\ ReturnedFor(send_log[i].email, TRUE)
    /\ \E e \in Range(calls) :
          /\ ReturnedFor(e, FALSE)
          /\ Cardinality(AttemptsOf(e)) = MAX_RETRIES

----------------------------------------------------------------------------
\* file i yields no identifier, or one that the table gives no email for
Unresolvable(i) ==
    \/ pdf_pan[pdf_files[i]] \in {None, Unreadable}
    \/ \A r \in DOMAIN df :
          \/ ~({"PAN", "eMail"} \subseteq DOMAIN df[r])
          \/ df[r].PAN # pdf_pan[pdf_files[i]]

\* C7: a document with no identifier, or whose identifier resolves to no
\* email, is dropped: its result is None, it has no copy in staging, it is in
\* no group, it is attached to no message and it is never archived.
C7_UnresolvedDropped ==
    \A i \in DOMAIN pdf_files :
        Unresolvable(i) =>
            /\ ~results[i].some
            /\ \A p \in staging \cup processed : basename(p) # pdf_files[i]
            /\ \A g \in Groups \cup Range(pan_to_files) :
                  \A p \in Range(g.files) : basename(p) # pdf_files[i]
            /\ \A a \in Range(send_log) : pdf_files[i] \notin Range(a.files)
            /\ \A m \in Range(move_log) : basename(m.src) # pdf_files[i]

\* a run has ended in which one document held no identifier, one held an
\* identifier the table does not have, and a third was sent and archived
C7_Witness ==
    /\ pc = "done"
    /\ \E i \in DOMAIN pdf_files : pdf_pan[pdf_files[i]] = None /\ worker[i] = "done"
    /\ \E i \in DOMAIN pdf_files :
          /\ pdf_pan[pdf_files[i]] # None
          /\ Unresolvable(i)
          /\ worker[i] = "done"
    /\ \E i \in DOMAIN pdf_files : results[i].some /\ Moved(results[i].path)

----------------------------------------------------------------------------
\* the files whose classification returned a triple with this email
ClassifiedTo(email) ==
    {pdf_files[i] : i \in {j \in DOMAIN results : results[j].some /\ results[j].email = email}}

\* the run ended because the Email section of the configuration is incomplete
EmailConfigFailed ==
    <<"An error occurred during script execution", "email_config">> \in errors

\* C8: at the end of a run with a complete configuration, for every email
\* some document was classified to, exactly one call of the dispatch engine
\* was made, and each message built carries exactly one attachment per
\* document classified to that email.
C8_OneCallPerRecipient ==
    (pc = "done" /\ ~EmailConfigFailed) =>
        \A e \in {results[i].email : i \in {j \in DOMAIN results : results[j].some}} :
            /\ Cardinality(CallsOf(e)) = 1
            /\ \A i \in AttemptsOf(e) :
                  /\ Range(send_log[i].files) = ClassifiedTo(e)
                  /\ Len(send_log[i].files) = Cardinality(ClassifiedTo(e))

----------------------------------------------------------------------------
\* C9: every path of every group is in the list of exactly one identifier of
\* pan_to_files, the one extracted from the document; every move the
\* archival makes takes the file to processed/{that identifier}/{filename}
\* and out of staging; a staged file is in exactly one of the two locations.
C9_ArchivalRouting ==
    /\ \A g \in Groups : \A p \in Range(g.files) :
          /\ Cardinality({j \in DOMAIN pan_to_files :
                             p \in Range(pan_to_files[j].files)}) = 1
          /\ \A j \in DOMAIN pan_to_files :
                p \in Range(pan_to_files[j].files) =>
                    pan_to_files[j].key = pdf_pan[basename(p)]
    /\ \A m \in Range(move_log) :
          m.ok =>
              /\ m.dst = <<processed_dir, pdf_pan[basename(m.src)], basename(m.src)>>
              /\ m.src \notin staging
              /\ m.dst \in processed
    /\ \A i \in DOMAIN results :
          results[i].some =>
              LET f == pdf_files[i]
              IN  (results[i].path \in staging)
                      # (<<processed_dir, pdf_pan[f], f>> \in processed)

----------------------------------------------------------------------------
\* a dictionary as a mapping from keys to sets of paths
AsMapping(d) == {<<d[i].key, Range(d[i].files)>> : i \in DOMAIN d}

Reorderings(rs) ==
    {[i \in DOMAIN rs |-> rs[p[i]]] : p \in Permutations(DOMAIN rs)}

\* C10: grouping any reordering of the list of optional triples yields the
\* same email -> paths and identifier -> paths mappings, each path list
\* taken as a set; None entries add nothing.
C10_GroupingOrderIndependent ==
    pc # "classify" =>
        /\ \A rs \in Reorderings(results) :
              /\ AsMapping(GroupLoop(rs, <<>>, <<>>)[1]) = AsMapping(email_groups)
              /\ AsMapping(GroupLoop(rs, <<>>, <<>>)[2]) = AsMapping(pan_to_files)
        /\ AsMapping(email_groups) =
              AsMapping(GroupLoop(SelectSeq(results, LAMBDA r : r.some), <<>>, <<>>)[1])
        /\ UNION {m[2] : m \in AsMapping(email_groups)} =
              {results[i].path : i \in {j \in DOMAIN results : results[j].some}}

\* a list of three was grouped: two triples of one email with different
\* paths and different identifiers, and a None
C10_Witness ==
    /\ pc # "classify"
    /\ Len(results) = 3
    /\ \E i, j, k \in DOMAIN results :
          /\ results[i].some
          /\ results[j].some
          /\ ~results[k].some
          /\ results[i].email = results[j].email
          /\ results[i].path # results[j].path
          /\ results[i].pan # results[j].pan
    /\ \E g \in Groups : Len(g.files) = 2

----------------------------------------------------------------------------
(* The extractor alone, on texts built around a code *)

GoodCodes ==
    { <<"A", "B", "C", "D", "E", "1", "2", "3", "4", "F">>,
      <<"F", "G", "H", "I", "J", "5", "6", "7", "8", "K">> }

\* a code with one character of the wrong class, too short, with a leading
\* letter, or with extra trailing letters or digits
BadCodes ==
    UNION { {[c EXCEPT ![k] = x] : k \in DOMAIN c, x \in {"a", "7", "Q"}}
            \cup {SubSeq(c, 1, Len(c) - 1), <<"X">> \o c, c \o <<"Z">>,
                  c \o <<"9">>, c \o <<"Z", "9">>}
          : c \in GoodCodes } \ GoodCodes

Separators == {<<>>, <<" ">>, <<"\n", " ">>, <<"\r", "\n">>, <<"U+00A0">>, <<":", " ">>}

Prefixes == {<<>>, <<"x", " ">>}

Suffixes == {<<>>, <<" ", "y">>, <<".">>}

\* the label (or not), a separator and a code
Fragments(codes) ==
    {l \o sep \o c : l \in {<<Label>>, <<>>}, sep \in Separators, c \in codes}

Texts ==
    LET one == {pre \o f \o suf :
                   pre \in Prefixes, f \in Fragments(GoodCodes \cup BadCodes),
                   suf \in Suffixes}
        few == {<<"A", "B", "C", "D", "E", "1", "2", "3", "4", "F">>,
                <<"F", "G", "H", "I", "J", "5", "6", "7", "8", "K">>,
                <<"F", "G", "H", "I", "J", "5", "6", "7", "8">>,
                <<"A", "B", "C", "D", "E", "1", "2", "3", "4", "F", "Z">>}
        two == {f \o <<"\n">> \o g : f \in Fragments(few), g \in Fragments(few)}
    IN  {[readable |-> TRUE, chars |-> t] : t \in one \cup two}
            \cup {[readable |-> FALSE, chars |-> <<>>]}

InitExtract ==
    /\ pdf_text \in Texts
    /\ extracted = NotFound
    /\ pdf_files = <<>>
    /\ pdf_pan = <<>>
    /\ df = <<>>
    /\ blocked = {}
    /\ quit_refused = 0
    /\ send_seconds = 0
    /\ worker = <<>>
    /\ results = <<>>
    /\ pc = "extract"
    /\ staging_dirs = {}
    /\ staging = {}
    /\ processed_dirs = {}
    /\ processed = {}
    /\ email_groups = <<>>
    /\ pan_to_files = <<>>
    /\ gi = 1
    /\ attempt = 0
    /\ fi = 1
    /\ clock = 0
    /\ last_reset = 0
    /\ num_calls = 0
    /\ calls = <<>>
    /\ send_log = <<>>
    /\ sleep_log = <<>>
    /\ returned = <<>>
    /\ move_log = <<>>
    /\ errors = {}
    /\ summary = -1

NextExtract == ExtractPan

SpecExtract == InitExtract /\ [][NextExtract]_vars

----------------------------------------------------------------------------
\* a letter or a digit
Alnum == Upper \cup Digit \cup {"a", "x", "y"}

\* at p stands a validly formatted code: ten characters of the right
\* classes, with no letter or digit before or after them
WellFormedCodeAt(chars, p) ==
    /\ p + 9 <= Len(chars)
    /\ \A k \in {0, 1, 2, 3, 4, 9} : chars[p + k] \in Upper
    /\ \A k \in {5, 6, 7, 8} : chars[p + k] \in Digit
    /\ p + 10 \in DOMAIN chars => chars[p + 10] \notin Alnum

\* the label at s is followed by whitespace and a validly formatted code at p
LabelledCode(chars, s, p) ==
    /\ s \in DOMAIN chars
    /\ chars[s] = Label
    /\ p >= s + 2
    /\ \A q \in (s + 1)..(p - 1) : chars[q] \in Whitespace
    /\ WellFormedCodeAt(chars, p)

\* C14: if the text holds the label followed by whitespace and a validly
\* formatted code, the extractor returns the ten characters of the first
\* such occurrence; if the label is absent or what follows it is malformed
\* (also a code with extra trailing letters or digits), or the PDF cannot be
\* read, it returns None without raising.
C14_ExtractorContract ==
    pc = "extracted" =>
        LET chars == pdf_text.chars
            at == {sp \in (DOMAIN chars) \X (DOMAIN chars) : LabelledCode(chars, sp[1], sp[2])}
        IN  IF pdf_text.readable /\ at # {}
            THEN LET first == CHOOSE sp \in at : \A o \in at : sp[1] <= o[1]
                 IN  /\ extracted.found
                     /\ extracted.pan = SubSeq(chars, first[2], first[2] + 9)
            ELSE ~extracted.found

----------------------------------------------------------------------------
(* The resolver on any table: the classification of one file *)

LookupRows ==
    {Row(pan, email) : pan \in {"ABCDE1234F", "FGHIJ5678K"},
                       email \in {"a@x.com", "b@x.com"}}

\* the tables of at most MaxRows rows, and tables read from a file that has
\* no PAN column or no email column
LookupTables ==
    UNION {[1..n -> LookupRows] : n \in 0..MaxRows}
        \cup {<<[eMail |-> "a@x.com"]>>,
              <<[eMail |-> "a@x.com"], [eMail |-> "b@x.com"]>>,
              <<[PAN |-> "ABCDE1234F"], [PAN |-> "FGHIJ5678K"]>>}

InitLookup ==
    /\ pdf_files = <<1>>
    /\ pdf_pan \in [{1} -> PANs]
    /\ df \in LookupTables
    /\ blocked = {}
    /\ quit_refused = 0
    /\ send_seconds = 0
    /\ worker = <<"idle">>
    /\ results = <<NoResult>>
    /\ pc = "classify"
    /\ Fresh

NextLookup ==
    \/ \E i \in DOMAIN pdf_files : ProcessPdfStart(i)
    \/ \E i \in DOMAIN pdf_files : ProcessPdfCopy(i)

SpecLookup == InitLookup /\ [][NextLookup]_vars

----------------------------------------------------------------------------
(* Runs in which leaving the SMTP session may raise after the delivery *)

InitDeliver ==
    /\ pdf_files = [i \in 1..DeliverFiles |-> i]
    /\ pdf_pan \in [1..DeliverFiles -> {"ABCDE1234F", "FGHIJ5678K"}]
    /\ df = << Row("ABCDE1234F", "a@x.com"), Row("FGHIJ5678K", "b@x.com") >>
    /\ blocked = {}
    /\ quit_refused \in 0..MAX_RETRIES
    /\ send_seconds \in {0, SlowSession}
    /\ worker = [i \in 1..DeliverFiles |-> "idle"]
    /\ results = [i \in 1..DeliverFiles |-> NoResult]
    /\ pc = "start"
    /\ Fresh

NextDeliver ==
    \/ Setup
    \/ \E i \in DOMAIN pdf_files : ProcessPdfStart(i)
    \/ \E i \in DOMAIN pdf_files : ProcessPdfCopy(i)
    \/ GroupResults
    \/ RateLimitedCall
    \/ SendOk
    \/ SendFail
    \/ SendErrorAfterDelivery
    \/ MoveOk
    \/ Finish

SpecDeliver == InitDeliver /\ [][NextDeliver]_vars

----------------------------------------------------------------------------
\* the classification of file i logged an error: the extraction, the lookup,
\* the creation of the directory or the copy raised
ProcessErrorLogged(i) ==
    \E e \in errors :
        /\ e[1] \in {"Error extracting PAN", "Error getting email for PAN",
                     "Error processing", "Error processing: FileExistsError"}
        /\ e[2] = pdf_files[i]

SetupFailed ==
    <<"An error occurred during script execution", "setup">> \in errors

\* C11: a failure while classifying one document does not abort the batch:
\* that document's slot is None, every other document is still classified
\* (its slot holds a triple iff it is resolvable and did not fail itself),
\* and the result list has one slot per input document.
C11_ClassifierTolerant ==
    /\ Len(results) = Len(pdf_files)
    /\ \A i \in DOMAIN pdf_files :
          ProcessErrorLogged(i) => worker[i] = "done" /\ ~results[i].some
    /\ (pc \notin {"start", "classify"} /\ ~SetupFailed) =>
          \A i \in DOMAIN pdf_files :
              /\ worker[i] = "done"
              /\ results[i].some <=> (~Unresolvable(i) /\ ~ProcessErrorLogged(i))

\* a run went on to send and archive a later document after the
\* classification of an earlier one had failed
C11_Witness ==
    /\ pc = "done"
    /\ summary >= 0
    /\ \E i, j \in DOMAIN pdf_files :
          /\ i < j
          /\ ProcessErrorLogged(i)
          /\ results[j].some
          /\ Moved(results[j].path)

----------------------------------------------------------------------------
TopLevelError ==
    \E e \in errors : e[1] = "An error occurred during script execution"

\* C12: a top-level failure is logged and main returns: from the failure on
\* main is at its end, and no send attempt and no file move follows.
C12_TopLevelFailureCaught ==
    [][ /\ TopLevelError' => pc' = "done"
        /\ TopLevelError =>
              UNCHANGED <<pc, calls, send_log, move_log, staging, processed>> ]_vars

\* a run has ended with a top-level failure after a message was sent, with
\* a file left in staging
C12_Witness ==
    /\ TopLevelError
    /\ pc = "done"
    /\ \E i \in DOMAIN send_log : send_log[i].ok
    /\ staging # {}

----------------------------------------------------------------------------
\* C13: the count logged at the end of a completed run is the number of
\* groups for which the send returned True.
C13_SummaryCountsSent ==
    summary # -1 =>
        summary = Cardinality({k \in DOMAIN email_groups :
                                  ReturnedFor(email_groups[k].key, TRUE)})

----------------------------------------------------------------------------
\* C15: if some row of the table has the identifier, the resolver returns
\* the email of the first such row; if none has it, or the lookup raises,
\* it returns None (the document gets no triple); a lookup error is logged
\* and the classification ends with None.
C15_FirstMatchingRow ==
    /\ \A i \in DOMAIN pdf_files :
           worker[i] # "idle" =>
               LET pan == pdf_pan[pdf_files[i]]
                   rows == IF \A r \in DOMAIN df : {"PAN", "eMail"} \subseteq DOMAIN df[r]
                           THEN {r \in DOMAIN df : df[r].PAN = pan}
                           ELSE {}
               IN  IF rows = {}
                   THEN worker[i] = "done" /\ ~results[i].some
                   ELSE worker[i] = "done" =>
                           /\ results[i].some
                           /\ \E r \in rows :
                                 /\ \A q \in rows : r <= q
                                 /\ results[i].email = df[r].eMail
    /\ \A e \in errors :
          e[1] = "Error getting email for PAN" =>
              \E i \in DOMAIN pdf_files :
                  e[2] = pdf_files[i] /\ worker[i] = "done" /\ ~results[i].some

\* the table has two rows of the identifier with different emails, and the
\* document was given the email of the first
C15_Witness ==
    /\ worker[1] = "done"
    /\ results[1].some
    /\ \E r, q \in DOMAIN df :
          /\ r < q
          /\ df[r].PAN = pdf_pan[1]
          /\ df[q].PAN = pdf_pan[1]
          /\ df[r].eMail # df[q].eMail
          /\ \A o \in 1..(r - 1) : df[o].PAN # pdf_pan[1]
          /\ results[1].email = df[r].eMail

----------------------------------------------------------------------------
\* the email of the first row of the table that has the identifier
FirstRowEmail(pan) ==
    df[CHOOSE r \in DOMAIN df :
          df[r].PAN = pan /\ \A q \in 1..(r - 1) : df[q].PAN # pan].eMail

\* where the classification stages file i
StagedPath(i) == <<grouped_dir, pdf_pan[pdf_files[i]], pdf_files[i]>>

\* the copy of file i raised
CopyErrorLogged(i) == <<"Error processing", pdf_files[i]>> \in errors

\* C16: in every interleaving of the workers no worker fails because the
\* staging sub-directory exists already (os.makedirs fails only where
\* something other than a directory is in the way), and staging and the
\* triples are what classifying the documents one after another gives: every
\* resolvable document whose classification did not fail is at
\* grouped/{PAN}/{filename}, and nothing else is staged but what a failed
\* copy left behind.
C16_ConcurrentClassification ==
    /\ \A e \in errors :
          e[1] = "Error processing: FileExistsError" =>
              <<grouped_dir, pdf_pan[e[2]]>> \in blocked
    /\ \A i \in DOMAIN pdf_files :
          LET f == pdf_files[i]
          IN  /\ results[i].some <=>
                    (worker[i] = "done" /\ ~Unresolvable(i) /\ ~ProcessErrorLogged(i))
              /\ results[i].some =>
                    results[i] = Triple(pdf_pan[f], FirstRowEmail(pdf_pan[f]),
                                        StagedPath(i))
    /\ pc = "classify" =>
          /\ \A i \in DOMAIN pdf_files : results[i].some => StagedPath(i) \in staging
          /\ \A p \in staging :
                \E i \in DOMAIN pdf_files :
                    /\ ~Unresolvable(i)
                    /\ p = StagedPath(i)
                    /\ results[i].some \/ CopyErrorLogged(i)
          /\ staging_dirs = {<<grouped_dir, pdf_pan[pdf_files[i]]>> :
                                i \in {j \in DOMAIN pdf_files :
                                          /\ ~Unresolvable(j)
                                          /\ worker[j] # "idle"
                                          /\ <<grouped_dir, pdf_pan[pdf_files[j]]>>
                                                \notin blocked}}

\* two workers whose documents share an identifier are both past makedirs
\* at the same time, and a third document of that identifier is staged
C16_Witness ==
    \E i, j, k \in DOMAIN pdf_files :
        /\ i # j
        /\ k \notin {i, j}
        /\ pdf_pan[pdf_files[i]] = pdf_pan[pdf_files[j]]
        /\ pdf_pan[pdf_files[k]] = pdf_pan[pdf_files[i]]
        /\ worker[i] = "copy"
        /\ worker[j] = "copy"
        /\ results[k].some
        /\ results[k].path \in staging

----------------------------------------------------------------------------
\* the group a staged path belongs to has had a successful attempt
SentFor(path) ==
    \E g \in Groups :
        /\ path \in Range(g.files)
        /\ \E i \in AttemptsOf(g.key) : send_log[i].ok

\* C17: no send attempt starts before every classification has finished and
\* the grouping is complete; no file is moved before an attempt for its
\* group has succeeded; once a file of a group has been archived no further
\* attempt is made for the group.
C17_OneWayFlow ==
    [][ /\ send_log' # send_log =>
              /\ \A i \in DOMAIN worker : worker[i] = "done"
              /\ UNCHANGED <<results, email_groups, pan_to_files>>
              /\ \A i \in DOMAIN results :
                    results[i].some =>
                        \E g \in Groups :
                            g.key = results[i].email
                                /\ results[i].path \in Range(g.files)
        /\ move_log' # move_log => SentFor(move_log'[Len(move_log')].src)
        /\ \A g \in Groups :
              (\E p \in Range(g.files) : MoveAttempted(p)) =>
                  {a \in Range(send_log') : a.email = g.key}
                      = {a \in Range(send_log) : a.email = g.key} ]_vars

\* the files of one group were archived and a later group is being sent
C17_Witness ==
    \E g, h \in Groups :
        /\ g # h
        /\ \A p \in Range(g.files) : Moved(p)
        /\ AttemptsOf(h.key) # {}
        /\ \A i \in AttemptsOf(g.key) : \A j \in AttemptsOf(h.key) : i < j

----------------------------------------------------------------------------
SleepsOf(email) == {s \in DOMAIN sleep_log : sleep_log[s].email = email}

\* C18: a call whose MAX_RETRIES attempts all fail waits exactly
\* MAX_RETRIES-1 times and returns False without a wait after the last
\* failed attempt.
C18_NoBackoffAfterLastAttempt ==
    \A e \in Range(calls) :
        ReturnedFor(e, FALSE) =>
            /\ Cardinality(SleepsOf(e)) = MAX_RETRIES - 1
            /\ \A s \in SleepsOf(e) : sleep_log[s].attempt <= MAX_RETRIES - 2

----------------------------------------------------------------------------
\* C19: every key of email_groups and of pan_to_files maps to a list with at
\* least one path, so no message is built with zero attachments.
C19_NoEmptyGroup ==
    /\ \A g \in Groups \cup Range(pan_to_files) : Len(g.files) >= 1
    /\ \A a \in Range(send_log) : Len(a.files) >= 1

\* a message with two attachments was built
C19_Witness ==
    /\ Len(email_groups) >= 2
    /\ \E a \in Range(send_log) : Len(a.files) = 2

----------------------------------------------------------------------------
\* C20: at most one message is delivered to each recipient in a run.
C20_DeliveredAtMostOnce ==
    \A e \in Range(calls) :
        Cardinality({i \in AttemptsOf(e) : send_log[i].delivered}) <= 1

====
